---- MODULE Spec2Model ----
(***************************************************************************)
(* Clipboard history: HistoryManager (in-memory index + CSV log + image    *)
(* blobs) and ClipboardMonitor (the polling thread), from                  *)
(* src/clipboard_gui.py.                                                   *)
(*                                                                         *)
(* Time is counted in seconds.  A history item is the tuple                *)
(* <<timestamp_iso, item_type, content>> of the source; content is a       *)
(* sequence of characters (a text, or the path of a blob file).  The CSV   *)
(* file is a sequence of rows, a row is a sequence of fields.              *)
(***************************************************************************)
EXTENDS Integers, Sequences, FiniteSets, TLC

VARIABLES
    history,            \* HistoryManager.history: date -> list of items, newest first
    csv,                \* the file at csv_path: whether it exists, and its rows in file order
    blobs,              \* paths of the files in images_dir
    clock,              \* wall clock, in seconds
    clip,               \* the clipboard snapshot the last cycle took
    recent_text,        \* ClipboardMonitor.recent_text
    recent_image_hash,  \* ClipboardMonitor.recent_image_hash
    running,            \* ClipboardMonitor.running
    pc,                 \* position of the poller thread in ClipboardMonitor.run
    cur,                \* the item the poller thread is capturing
    gui,                \* position of the GUI thread in clear_date / clear_all
    gargs,              \* locals of the GUI thread's call
    signal,             \* arguments of the last newItem emission
    steps,              \* steps the current capture has performed, in order
    first_poll,         \* no cycle has completed since the monitor was created
    failures,           \* number of file operations that have failed
    last,               \* outcome of the last HistoryManager operation
    view,               \* locals of the GUI thread's rendering of a bucket
    csv_text            \* the characters of the file at csv_path (followed under SpecCsv)

vars == <<history, csv, blobs, clock, clip, recent_text,
          recent_image_hash, running, pc, cur, gui, gargs, signal, steps,
          first_poll, failures, last, view, csv_text>>

(***************************************************************************)
(* Bounds and constants                                                    *)
(***************************************************************************)
MaxClock == 4
SecondsPerDay == 2
MaxFailures == 1
POLL_INTERVAL_SECONDS == 1

Texts == {<<"a">>, <<"b">>}
Images == {"img1", "img2"}
NullImage == "null"
NoItem == <<>>

\* hashlib.sha256(png bytes).hexdigest(), as a sequence of hex characters
sha256(image) == IF image = "img1" THEN <<"x", "1">> ELSE <<"y", "2">>

\* datetime.now().isoformat() and datetime.fromisoformat(): a well-formed
\* stamp is a number of seconds, anything below zero does not parse
isoformat(t) == t
ParseOk(timestamp_iso) == timestamp_iso >= 0
fromisoformat(timestamp_iso) == timestamp_iso
date(timestamp) == timestamp \div SecondsPerDay

Dates == {date(t) : t \in 0..MaxClock}

\* mutant: the file is named after the hash alone
FilepathWithoutTime(timestamp, image_hash) == <<"png", image_hash[1]>>

\* f"{timestamp.strftime('%Y%m%d_%H%M%S')}_{image_hash[:8]}.png" under images_dir
Filepath(timestamp, image_hash) == <<ToString(timestamp), image_hash[1]>>

\* clipboard.mimeData() / clipboard.image() / clipboard.text()
Snapshot(hi, im, ht, tx) == [hasImage |-> hi, image |-> im, hasText |-> ht, text |-> tx]
NoSnapshot == Snapshot(FALSE, NullImage, FALSE, <<>>)
Snapshots ==
    {NoSnapshot, Snapshot(FALSE, NullImage, TRUE, <<>>), Snapshot(TRUE, NullImage, FALSE, <<>>),
     Snapshot(TRUE, "img1", TRUE, <<"a">>)}
    \cup {Snapshot(FALSE, NullImage, TRUE, tx) : tx \in Texts}
    \cup {Snapshot(TRUE, im, FALSE, <<>>) : im \in Images}

(***************************************************************************)
(* HistoryManager: pure parts                                              *)
(***************************************************************************)
RECURSIVE SortedDescending(_)
SortedDescending(S) ==
    IF S = {} THEN <<>>
    ELSE LET m == CHOOSE x \in S : \A y \in S : y <= x
         IN  <<m>> \o SortedDescending(S \ {m})

Reversed(s) == [i \in 1..Len(s) |-> s[Len(s) + 1 - i]]

\* mutant: the item is put at the end of its bucket
InsertLast(h, item_date, item) ==
    IF item_date \in DOMAIN h
    THEN [h EXCEPT ![item_date] = Append(@, item)]
    ELSE [d \in DOMAIN h \cup {item_date} |-> IF d = item_date THEN <<item>> ELSE h[d]]

\* self.history[item_date].insert(0, item), creating the bucket if absent
Insert0(h, item_date, item) ==
    IF item_date \in DOMAIN h
    THEN [h EXCEPT ![item_date] = <<item>> \o @]
    ELSE [d \in DOMAIN h \cup {item_date} |-> IF d = item_date THEN <<item>> ELSE h[d]]

add_item_to_memory(h, timestamp_iso, item_type, content) ==
    Insert0(h, date(fromisoformat(timestamp_iso)), <<timestamp_iso, item_type, content>>)

\* the loop of _load_history_from_csv: rows that do not have three fields are
\* passed over; fromisoformat raising ends the loop (the except is outside it)
RECURSIVE LoadRows(_, _)
LoadRows(rows, h) ==
    IF rows = <<>> THEN h
    ELSE LET row == Head(rows)
         IN  IF Len(row) = 3
             THEN IF ParseOk(row[1])
                  THEN LoadRows(Tail(rows), add_item_to_memory(h, row[1], row[2], row[3]))
                  ELSE h
             ELSE LoadRows(Tail(rows), h)

load_history_from_csv(file) == IF file.exists THEN LoadRows(file.rows, <<>>) ELSE <<>>

get_history_for_date(h, d) == IF d \in DOMAIN h THEN h[d] ELSE <<>>

get_all_dates(h) == SortedDescending(DOMAIN h)

\* all_items of _rewrite_csv
RECURSIVE AllItems(_, _)
AllItems(h, keys) ==
    IF keys = <<>> THEN <<>>
    ELSE Reversed(h[Head(keys)]) \o AllItems(h, Tail(keys))

\* mutant: the buckets are written as they are held, newest first
RECURSIVE AllItemsNewestFirst(_, _)
AllItemsNewestFirst(h, keys) ==
    IF keys = <<>> THEN <<>>
    ELSE h[Head(keys)] \o AllItemsNewestFirst(h, Tail(keys))

RewriteRowsNewestFirst(h) == AllItemsNewestFirst(h, SortedDescending(DOMAIN h))

RewriteRows(h) == AllItems(h, SortedDescending(DOMAIN h))

ImagePaths(history_items) ==
    {history_items[i][3] : i \in {j \in 1..Len(history_items) : history_items[j][2] = "image"}}

RECURSIVE AllImagePaths(_, _)
AllImagePaths(h, keys) ==
    IF keys = {} THEN {}
    ELSE LET d == CHOOSE x \in keys : TRUE
         IN  ImagePaths(h[d]) \cup AllImagePaths(h, keys \ {d})

\* latest_history[0] of all_dates[0], as the priming of run reads it
LatestItem(h) ==
    IF get_all_dates(h) = <<>> THEN NoItem
    ELSE LET latest_history == get_history_for_date(h, get_all_dates(h)[1])
         IN  IF latest_history = <<>> THEN NoItem ELSE latest_history[1]

\* lines 172-176 of add_item: the same insertion, written out a second time
add_item_insert(h, timestamp_iso, item_type, content) ==
    Insert0(h, date(fromisoformat(timestamp_iso)), <<timestamp_iso, item_type, content>>)

(***************************************************************************)
(* The CSV file.  An operation on it ends "ok", fails in open() (the file  *)
(* is not touched) or fails while writing.  Rows are written whole: a      *)
(* failed write leaves none of the row being written.                      *)
(***************************************************************************)
File(exists, rows) == [exists |-> exists, rows |-> rows]
NoFile == File(FALSE, <<>>)
Outcomes == {"ok", "open_fail", "write_fail"}

\* mutant: a failed append leaves the file truncated
append_to_csv_truncating(file, row, outcome) ==
    CASE outcome = "ok" -> File(TRUE, Append(file.rows, row))
      [] OTHER -> File(TRUE, <<>>)

\* open(csv_path, 'a') ; writer.writerow(row)
append_to_csv(file, row, outcome) ==
    CASE outcome = "ok" -> File(TRUE, Append(file.rows, row))
      [] outcome = "open_fail" -> file
      [] OTHER -> File(TRUE, file.rows)

\* open(csv_path, 'w') truncates the file ; writer.writerows(all_items) ;
\* written: the number of rows that reached the file when the write failed
rewrite_csv(file, h, outcome, written) ==
    CASE outcome = "ok" -> File(TRUE, RewriteRows(h))
      [] outcome = "open_fail" -> file
      [] OTHER -> File(TRUE, SubSeq(RewriteRows(h), 1, written))

\* the outcomes _rewrite_csv can have when it writes the rows of h
RewriteOutcomes(h) ==
    {<<"ok", Len(RewriteRows(h))>>, <<"open_fail", 0>>}
    \cup {<<"write_fail", n>> : n \in 0..(Len(RewriteRows(h)) - 1)}

Status(outcome) == IF outcome = "ok" THEN "ok" ELSE "fail"

\* mutant: every file of images_dir is removed
delete_all_image_files(files, paths, kept) == {}

\* _delete_image_files: os.remove of every image path that exists; a path
\* whose removal raises OSError stays (kept)
delete_image_files(files, paths, kept) == (files \ paths) \cup (kept \cap files)

Without(h, d) == [x \in DOMAIN h \ {d} |-> h[x]]

\* the number of file operations that failed, given which succeeded
Errors(successes) == IF successes = {TRUE} THEN 0 ELSE IF successes = {FALSE} THEN 2 ELSE 1

\* an operation of HistoryManager: its name, its date argument if it has one,
\* how its append and its rewrite of the file ended, what it returned
Op(op, args, append, rewrite, ret) ==
    [op |-> op, args |-> args, append |-> append, rewrite |-> rewrite, ret |-> ret]

(***************************************************************************)
(* ClipboardMonitor: pure parts                                            *)
(***************************************************************************)
\* run, lines 247-255: only a text item primes the monitor
PrimedText(h, text) ==
    LET item == LatestItem(h)
    IN  IF item # NoItem /\ item[2] = "text" THEN item[3] ELSE text

\* mutant: an empty text is not filtered out
TextAcceptedWhenEmpty(text, recent) == text # recent

\* process_text, line 294
TextAccepted(text, recent) == text # <<>> /\ text # recent

\* process_image, lines 273 and 281
ImageAccepted(image, recent) == image # NullImage /\ sha256(image) # recent

NoArgs == {}

\* the GUI thread is not rendering: the iterator of update_history_view over
\* the list get_history_for_date(date) returned, the index i it has reached,
\* the rows it has shown, and the bucket as it was when the iteration began
View(date_, live, i, shown, before) ==
    [date |-> date_, live |-> live, i |-> i, shown |-> shown, before |-> before]
NoView == View(0, FALSE, 0, <<>>, <<>>)

Init ==
    /\ csv = NoFile
    /\ history = load_history_from_csv(NoFile)
    /\ blobs = {}
    /\ clock = 0
    /\ clip = NoSnapshot
    /\ recent_text = <<>>
    /\ recent_image_hash = <<>>
    /\ running = TRUE
    /\ pc = "start"
    /\ cur = NoItem
    /\ gui = "idle"
    /\ gargs = NoArgs
    /\ signal = NoItem
    /\ steps = <<>>
    /\ first_poll = TRUE
    /\ failures = 0
    /\ last = Op("load", {}, "none", "none", "None")
    /\ view = NoView
    /\ csv_text = <<>>

(***************************************************************************)
(* The operations, each run to completion by one thread                    *)
(***************************************************************************)
\* ClipboardMonitor.run up to the loop
Prime ==
    /\ pc = "start"
    /\ recent_text' = PrimedText(history, recent_text)
    /\ pc' = "loop"
    /\ UNCHANGED <<view, csv_text, history, csv, blobs, clock, clip, recent_image_hash, running, cur,
                   gui, gargs, signal, steps, first_poll, failures, last>>

\* HistoryManager.add_item followed by newItem.emit
AddAndEmit(timestamp_iso, item_type, content, append) ==
    /\ history' = add_item_insert(history, timestamp_iso, item_type, content)
    /\ csv' = append_to_csv(csv, <<timestamp_iso, item_type, content>>, append)
    /\ signal' = <<timestamp_iso, item_type, content>>
    /\ cur' = <<timestamp_iso, item_type, content>>
    /\ last' = Op("add_item", {}, Status(append), "none", "item_date")

NoCapture ==
    /\ cur' = NoItem
    /\ UNCHANGED <<history, csv, blobs, signal, steps, last>>

process_text(text, append) ==
    /\ IF TextAccepted(text, recent_text)
       THEN /\ recent_text' = text
            /\ AddAndEmit(isoformat(clock), "text", text, append)
            /\ steps' = <<"insert", "append", "emit">>
            /\ UNCHANGED blobs
       ELSE /\ NoCapture
            /\ UNCHANGED recent_text
    /\ UNCHANGED recent_image_hash

\* mutant: one dedup state for both kinds, an accepted image forgets the text
process_image_forgets_text(image, saved, append) ==
    /\ IF ImageAccepted(image, recent_image_hash)
       THEN /\ recent_image_hash' = sha256(image)
            /\ recent_text' = <<>>
            /\ blobs' = IF saved THEN blobs \cup {Filepath(clock, sha256(image))} ELSE blobs
            /\ AddAndEmit(isoformat(clock), "image", Filepath(clock, sha256(image)), append)
            /\ steps' = <<"save", "insert", "append", "emit">>
       ELSE /\ NoCapture
            /\ UNCHANGED <<recent_image_hash, recent_text>>

process_image(image, saved, append) ==
    /\ IF ImageAccepted(image, recent_image_hash)
       THEN /\ recent_image_hash' = sha256(image)
            /\ blobs' = IF saved THEN blobs \cup {Filepath(clock, sha256(image))} ELSE blobs
            /\ AddAndEmit(isoformat(clock), "image", Filepath(clock, sha256(image)), append)
            /\ steps' = <<"save", "insert", "append", "emit">>
       ELSE /\ NoCapture
            /\ UNCHANGED recent_image_hash
    /\ UNCHANGED recent_text

\* one cycle of the loop of run: sample, process, sleep
RunCycle(snapshot, saved, append, slept) ==
    /\ pc = "loop" /\ gui = "idle" /\ running
    /\ clip' = snapshot
    /\ IF snapshot.hasImage THEN process_image(snapshot.image, saved, append)
       ELSE IF snapshot.hasText THEN process_text(snapshot.text, append)
       ELSE NoCapture /\ UNCHANGED <<recent_text, recent_image_hash>>
    /\ clock' = clock + slept
    /\ first_poll' = FALSE
    /\ failures' = failures + Errors({saved, append = "ok"})
    /\ UNCHANGED <<view, csv_text, running, pc, gui, gargs>>

\* mutant: the file is rewritten whether or not the date has a bucket
clear_date_always_rewrites(date_to_clear, outcome, kept) ==
    /\ gui = "idle" /\ pc \in {"start", "loop"}
    /\ IF date_to_clear \in DOMAIN history
       THEN /\ blobs' = delete_image_files(blobs, ImagePaths(history[date_to_clear]), kept)
            /\ history' = Without(history, date_to_clear)
       ELSE UNCHANGED <<blobs, history>>
    /\ csv' = rewrite_csv(csv, history', outcome[1], outcome[2])
    /\ last' = Op("clear_date", {date_to_clear}, "none", Status(outcome[1]), "None")
    /\ failures' = failures + Errors({outcome[1] = "ok", kept = {}})
    /\ UNCHANGED <<view, csv_text, clock, clip, recent_text, recent_image_hash, running, pc, cur, gui,
                   gargs, signal, steps, first_poll>>

\* HistoryManager.clear_date
clear_date(date_to_clear, outcome, kept) ==
    /\ gui = "idle" /\ pc \in {"start", "loop"}
    /\ IF date_to_clear \in DOMAIN history
       THEN /\ blobs' = delete_image_files(blobs, ImagePaths(history[date_to_clear]), kept)
            /\ history' = Without(history, date_to_clear)
            /\ csv' = rewrite_csv(csv, history', outcome[1], outcome[2])
            /\ last' = Op("clear_date", {date_to_clear}, "none", Status(outcome[1]), "None")
       ELSE /\ last' = Op("clear_date", {date_to_clear}, "none", "none", "None")
            /\ UNCHANGED <<blobs, history, csv>>
    /\ failures' = failures + Errors({outcome[1] = "ok", kept = {}})
    /\ UNCHANGED <<view, csv_text, clock, clip, recent_text, recent_image_hash, running, pc, cur, gui,
                   gargs, signal, steps, first_poll>>

\* mutant: clear_all also forgets the content captured last
clear_all_resets_recent(outcome, kept) ==
    /\ gui = "idle" /\ pc \in {"start", "loop"}
    /\ blobs' = delete_image_files(blobs, AllImagePaths(history, DOMAIN history), kept)
    /\ history' = <<>>
    /\ csv' = rewrite_csv(csv, history', outcome[1], outcome[2])
    /\ last' = Op("clear_all", {}, "none", Status(outcome[1]), "None")
    /\ failures' = failures + Errors({outcome[1] = "ok", kept = {}})
    /\ recent_text' = <<>>
    /\ recent_image_hash' = <<>>
    /\ UNCHANGED <<view, csv_text, clock, clip, running, pc, cur, gui, gargs, signal, steps,
                   first_poll>>

\* HistoryManager.clear_all
clear_all(outcome, kept) ==
    /\ gui = "idle" /\ pc \in {"start", "loop"}
    /\ blobs' = delete_image_files(blobs, AllImagePaths(history, DOMAIN history), kept)
    /\ history' = <<>>
    /\ csv' = rewrite_csv(csv, history', outcome[1], outcome[2])
    /\ last' = Op("clear_all", {}, "none", Status(outcome[1]), "None")
    /\ failures' = failures + Errors({outcome[1] = "ok", kept = {}})
    /\ UNCHANGED <<view, csv_text, clock, clip, recent_text, recent_image_hash, running, pc, cur, gui,
                   gargs, signal, steps, first_poll>>

\* the application is quit and started again: __main__, HistoryManager.__init__,
\* ClipboardMonitor.__init__
Restart ==
    /\ gui = "idle" /\ pc \in {"start", "loop"}
    /\ history' = load_history_from_csv(csv)
    /\ recent_text' = <<>>
    /\ recent_image_hash' = <<>>
    /\ running' = TRUE
    /\ pc' = "start"
    /\ cur' = NoItem
    /\ clip' = NoSnapshot
    /\ signal' = NoItem
    /\ steps' = <<>>
    /\ first_poll' = TRUE
    /\ last' = Op("load", {}, "none", "none", "None")
    /\ UNCHANGED <<view, csv_text, csv, blobs, clock, gui, gargs, failures>>

(***************************************************************************)
(* Specifications.  Under Spec every file operation succeeds; under SpecIO *)
(* at most MaxFailures of them fail.                                       *)
(***************************************************************************)
Accepted(snapshot) ==
    IF snapshot.hasImage THEN ImageAccepted(snapshot.image, recent_image_hash)
    ELSE snapshot.hasText /\ TextAccepted(snapshot.text, recent_text)

\* nothing to choose for a file operation the cycle does not perform
CycleWith(snapshots, saves, appends) ==
    \E snapshot \in snapshots, slept \in POLL_INTERVAL_SECONDS..(MaxClock + 1 - clock) :
        \E saved \in IF Accepted(snapshot) /\ snapshot.hasImage THEN saves ELSE {TRUE},
           append \in IF Accepted(snapshot) THEN appends ELSE {"ok"} :
            /\ failures + Errors({saved, append = "ok"}) <= MaxFailures
            /\ RunCycle(snapshot, saved, append, slept)

Cycle == CycleWith(Snapshots, {TRUE}, {"ok"})

ClearDate ==
    \E d \in Dates :
        clear_date(d, <<"ok", Len(RewriteRows(Without(history, d)))>>, {})

ClearAll == clear_all(<<"ok", 0>>, {})

Next == Prime \/ Cycle \/ ClearDate \/ ClearAll \/ Restart

Spec == Init /\ [][Next]_vars

\* the snapshots that hold a text or an image
ContentSnapshots == {s \in Snapshots : s.image # NullImage \/ s.text # <<>>}

CycleIO == CycleWith(ContentSnapshots, BOOLEAN, Outcomes)

ClearDateIO ==
    \E d \in Dates :
        \E outcome \in RewriteOutcomes(Without(history, d)),
           kept \in SUBSET (ImagePaths(get_history_for_date(history, d)) \cap blobs) :
            /\ failures + Errors({outcome[1] = "ok", kept = {}}) <= MaxFailures
            /\ clear_date(d, outcome, kept)

ClearAllIO ==
    \E outcome \in RewriteOutcomes(<<>>),
       kept \in SUBSET (AllImagePaths(history, DOMAIN history) \cap blobs) :
        /\ failures + Errors({outcome[1] = "ok", kept = {}}) <= MaxFailures
        /\ clear_all(outcome, kept)

NextIO == Prime \/ CycleIO \/ ClearDateIO \/ ClearAllIO \/ Restart

SpecIO == Init /\ [][NextIO]_vars

(***************************************************************************)
(* SpecAppend: as Spec, but the append of add_item may fail, MaxFailures   *)
(* times at most.                                                          *)
(***************************************************************************)
CycleAppend == CycleWith(ContentSnapshots, {TRUE}, Outcomes)

NextAppend == Prime \/ CycleAppend \/ ClearDate \/ ClearAll \/ Restart

SpecAppend == Init /\ [][NextAppend]_vars

(***************************************************************************)
(* SpecHM: HistoryManager called directly: add_item with timestamps that   *)
(* do not decrease (two items may bear the same), clear_date, clear_all    *)
(* and reloads from the log.  The file operations succeed.                 *)
(***************************************************************************)
\* the most records the log holds when add_item is called
MaxItems == 3

\* HistoryManager.add_item
add_item(timestamp_iso, item_type, content) ==
    /\ gui = "idle" /\ pc \in {"start", "loop"}
    /\ history' = add_item_insert(history, timestamp_iso, item_type, content)
    /\ csv' = append_to_csv(csv, <<timestamp_iso, item_type, content>>, "ok")
    /\ last' = Op("add_item", {}, "ok", "none", "item_date")
    /\ cur' = <<timestamp_iso, item_type, content>>
    /\ clock' = fromisoformat(timestamp_iso)
    /\ UNCHANGED <<view, csv_text, blobs, clip, recent_text, recent_image_hash, running, pc,
                   gui, gargs, signal, steps, first_poll, failures>>

\* the contents a caller passes with a timestamp: a text, or the path of a blob
Contents(timestamp) ==
    {<<"text", text>> : text \in Texts}
    \cup {<<"image", Filepath(timestamp, sha256(image))>> : image \in Images}

AddItem ==
    \E timestamp \in clock..MaxClock :
        \E c \in Contents(timestamp) :
            /\ Len(csv.rows) < MaxItems
            /\ add_item(isoformat(timestamp), c[1], c[2])

NextHM == AddItem \/ ClearDate \/ ClearAll \/ Restart

SpecHM == Init /\ [][NextHM]_vars

(***************************************************************************)
(* SpecSession: one session of the monitor and nothing else: the log is    *)
(* the sequence of the items captured in the session.                      *)
(***************************************************************************)
NextSession == Prime \/ Cycle

SpecSession == Init /\ [][NextSession]_vars

(***************************************************************************)
(* SpecLoad: HistoryManager.__init__ on an arbitrary log file, of at most  *)
(* MaxRows rows, well-formed or not.                                       *)
(***************************************************************************)
NotADate == -1
MaxRows == 3

LogRows ==
    {<<isoformat(t), "text", <<"a">>>> : t \in 0..SecondsPerDay}
    \cup {<<>>, <<isoformat(0), "text">>, <<isoformat(0), "text", <<"a">>, <<"b">>>>,
          <<NotADate, "text", <<"a">>>>}

RECURSIVE RowSeqs(_)
RowSeqs(n) ==
    IF n = 0 THEN {<<>>}
    ELSE RowSeqs(n - 1) \cup {Append(rows, row) : rows \in RowSeqs(n - 1), row \in LogRows}

InitLoad ==
    /\ csv \in {NoFile} \cup {File(TRUE, rows) : rows \in RowSeqs(MaxRows)}
    /\ history = <<>>
    /\ blobs = {}
    /\ clock = 0
    /\ clip = NoSnapshot
    /\ recent_text = <<>>
    /\ recent_image_hash = <<>>
    /\ running = TRUE
    /\ pc = "start"
    /\ cur = NoItem
    /\ gui = "idle"
    /\ gargs = NoArgs
    /\ signal = NoItem
    /\ steps = <<>>
    /\ first_poll = TRUE
    /\ failures = 0
    /\ last = Op("__init__", {}, "none", "none", "None")
    /\ view = NoView
    /\ csv_text = <<>>

\* HistoryManager.__init__: self.history = {} ; self._load_history_from_csv()
Load ==
    /\ last.op = "__init__"
    /\ history' = load_history_from_csv(csv)
    /\ last' = Op("load", {}, "none", "none", "None")
    /\ UNCHANGED <<view, csv_text, csv, blobs, clock, clip, recent_text, recent_image_hash, running, pc,
                   cur, gui, gargs, signal, steps, first_poll, failures>>

NextLoad == Load

SpecLoad == InitLoad /\ [][NextLoad]_vars

(***************************************************************************)
(* SpecConc: the poller thread and the GUI thread, statement by statement. *)
(* The file operations succeed.                                            *)
(***************************************************************************)
\* the last second at which the poller thread takes a sample
MaxConcClock == 2

\* the statement the poller thread runs first for an accepted sample
FirstStep(item_type) == IF item_type = "image" THEN "save" ELSE "insert"

\* mutant: the notification is emitted before the record is appended
NextStepEmitEarly(step) ==
    CASE step = "save" -> "insert"
      [] step = "insert" -> "emit"
      [] step = "emit" -> "append"
      [] OTHER -> "sleep"

\* the statement that follows step in process_image / process_text / add_item
NextStep(step) ==
    CASE step = "save" -> "insert"
      [] step = "insert" -> "append"
      [] step = "append" -> "emit"
      [] OTHER -> "sleep"

\* run, lines 259-266, and the test of process_image / process_text
P_Sample(snapshot) ==
    /\ pc = "loop" /\ running /\ clock <= MaxConcClock
    /\ clip' = snapshot
    /\ IF snapshot.hasImage /\ ImageAccepted(snapshot.image, recent_image_hash)
       THEN /\ recent_image_hash' = sha256(snapshot.image)
            /\ cur' = <<isoformat(clock), "image", Filepath(clock, sha256(snapshot.image))>>
            /\ pc' = FirstStep("image")
            /\ steps' = <<>>
            /\ UNCHANGED recent_text
       ELSE IF ~snapshot.hasImage /\ snapshot.hasText /\ TextAccepted(snapshot.text, recent_text)
       THEN /\ recent_text' = snapshot.text
            /\ cur' = <<isoformat(clock), "text", snapshot.text>>
            /\ pc' = FirstStep("text")
            /\ steps' = <<>>
            /\ UNCHANGED recent_image_hash
       ELSE /\ cur' = NoItem
            /\ pc' = "sleep"
            /\ UNCHANGED <<recent_text, recent_image_hash, steps>>
    /\ UNCHANGED <<view, csv_text, history, csv, blobs, clock, running, gui, gargs, signal, first_poll,
                   failures, last>>

\* image.save(filepath, "PNG")
P_Save ==
    /\ pc = "save"
    /\ blobs' = blobs \cup {cur[3]}
    /\ steps' = Append(steps, "save")
    /\ pc' = NextStep("save")
    /\ UNCHANGED <<view, csv_text, history, csv, clock, clip, recent_text, recent_image_hash, running, cur,
                   gui, gargs, signal, first_poll, failures, last>>

\* add_item, lines 172-176
P_Insert ==
    /\ pc = "insert"
    /\ history' = add_item_insert(history, cur[1], cur[2], cur[3])
    /\ steps' = Append(steps, "insert")
    /\ pc' = NextStep("insert")
    /\ UNCHANGED <<view, csv_text, csv, blobs, clock, clip, recent_text, recent_image_hash, running, cur,
                   gui, gargs, signal, first_poll, failures, last>>

\* add_item, line 177
P_Append ==
    /\ pc = "append"
    /\ csv' = append_to_csv(csv, cur, "ok")
    /\ last' = Op("add_item", {}, "ok", "none", "item_date")
    /\ steps' = Append(steps, "append")
    /\ pc' = NextStep("append")
    /\ UNCHANGED <<view, csv_text, history, blobs, clock, clip, recent_text, recent_image_hash, running,
                   cur, gui, gargs, signal, first_poll, failures>>

\* self.newItem.emit(...)
P_Emit ==
    /\ pc = "emit"
    /\ signal' = cur
    /\ steps' = Append(steps, "emit")
    /\ pc' = NextStep("emit")
    /\ UNCHANGED <<view, csv_text, history, csv, blobs, clock, clip, recent_text, recent_image_hash,
                   running, cur, gui, gargs, first_poll, failures, last>>

\* time.sleep(POLL_INTERVAL_SECONDS)
P_Sleep(slept) ==
    /\ pc = "sleep"
    /\ clock' = clock + slept
    /\ first_poll' = FALSE
    /\ pc' = "loop"
    /\ UNCHANGED <<view, csv_text, history, csv, blobs, clip, recent_text, recent_image_hash, running, cur,
                   gui, gargs, signal, steps, failures, last>>

\* clear_date, lines 219-220
G_ClearDate(date_to_clear) ==
    /\ gui = "idle"
    /\ IF date_to_clear \in DOMAIN history
       THEN /\ gargs' = {date_to_clear}
            /\ gui' = "delete_files"
            /\ UNCHANGED last
       ELSE /\ last' = Op("clear_date", {date_to_clear}, "none", "none", "None")
            /\ UNCHANGED <<gargs, gui>>
    /\ UNCHANGED <<view, csv_text, history, csv, blobs, clock, clip, recent_text, recent_image_hash,
                   running, pc, cur, signal, steps, first_poll, failures>>

\* the date the GUI thread's clear_date was called with
TheDate == CHOOSE d \in gargs : TRUE

\* clear_date, line 221: items_to_delete is the bucket itself, not a copy
G_DeleteFiles ==
    /\ gui = "delete_files"
    /\ blobs' = delete_image_files(blobs, ImagePaths(history[TheDate]), {})
    /\ gui' = "del"
    /\ UNCHANGED <<view, csv_text, history, csv, clock, clip, recent_text, recent_image_hash, running, pc,
                   cur, gargs, signal, steps, first_poll, failures, last>>

\* clear_date, line 222
G_Del ==
    /\ gui = "del"
    /\ history' = Without(history, TheDate)
    /\ gui' = "rewrite"
    /\ UNCHANGED <<view, csv_text, csv, blobs, clock, clip, recent_text, recent_image_hash, running, pc,
                   cur, gargs, signal, steps, first_poll, failures, last>>

\* clear_all, lines 227-228
G_ClearAll ==
    /\ gui = "idle"
    /\ blobs' = delete_image_files(blobs, AllImagePaths(history, DOMAIN history), {})
    /\ gargs' = NoArgs
    /\ gui' = "clear"
    /\ UNCHANGED <<view, csv_text, history, csv, clock, clip, recent_text, recent_image_hash, running, pc,
                   cur, signal, steps, first_poll, failures, last>>

\* clear_all, line 229
G_Clear ==
    /\ gui = "clear"
    /\ history' = <<>>
    /\ gui' = "rewrite"
    /\ UNCHANGED <<view, csv_text, csv, blobs, clock, clip, recent_text, recent_image_hash, running, pc,
                   cur, gargs, signal, steps, first_poll, failures, last>>

\* _rewrite_csv, called last by clear_date and clear_all
G_Rewrite ==
    /\ gui = "rewrite"
    /\ csv' = rewrite_csv(csv, history, "ok", 0)
    /\ last' = Op(IF gargs = NoArgs THEN "clear_all" ELSE "clear_date", gargs, "none", "ok", "None")
    /\ gargs' = NoArgs
    /\ gui' = "idle"
    /\ UNCHANGED <<view, csv_text, history, blobs, clock, clip, recent_text, recent_image_hash, running, pc,
                   cur, signal, steps, first_poll, failures>>

Poller ==
    \/ Prime
    \/ \E snapshot \in Snapshots : P_Sample(snapshot)
    \/ P_Save
    \/ P_Insert
    \/ P_Append
    \/ P_Emit
    \/ \E slept \in POLL_INTERVAL_SECONDS..(MaxConcClock + 1 - clock) : P_Sleep(slept)

Gui ==
    \/ \E d \in Dates : G_ClearDate(d)
    \/ G_DeleteFiles
    \/ G_Del
    \/ G_ClearAll
    \/ G_Clear
    \/ G_Rewrite

NextConc == Poller \/ Gui

SpecConc == Init /\ [][NextConc]_vars

(***************************************************************************)
(* SpecRun: the loop of ClipboardMonitor.run statement by statement, with  *)
(* exceptions raised in a cycle, and quit_app on the GUI thread.           *)
(* SpecRunFair: the same, the poller thread being scheduled fairly.        *)
(***************************************************************************)
Processing == {"save", "insert", "append", "emit"}

\* mutant: an exception raised in a cycle ends run
P_RaiseEndsRun ==
    /\ \/ pc \in Processing
       \/ pc = "loop" /\ running /\ clock <= MaxConcClock
    /\ steps' = IF pc = "loop" THEN <<"raise">> ELSE Append(steps, "raise")
    /\ cur' = IF pc = "loop" THEN NoItem ELSE cur
    /\ pc' = "done"
    /\ UNCHANGED <<view, csv_text, history, csv, blobs, clock, clip, recent_text,
                   recent_image_hash, running, gui, gargs, signal, first_poll, failures, last>>

\* run, lines 260-268: the statement the thread is at (the sampling of lines
\* 261-266, or a statement of process_image / process_text / add_item)
\* raises; the except of line 267 catches it and run goes on to the sleep
P_Raise ==
    /\ \/ pc \in Processing
       \/ pc = "loop" /\ running /\ clock <= MaxConcClock
    /\ steps' = IF pc = "loop" THEN <<"raise">> ELSE Append(steps, "raise")
    /\ cur' = IF pc = "loop" THEN NoItem ELSE cur
    /\ pc' = "sleep"
    /\ UNCHANGED <<view, csv_text, history, csv, blobs, clock, clip, recent_text,
                   recent_image_hash, running, gui, gargs, signal, first_poll, failures, last>>

\* run, line 259: while self.running is false, run returns
P_Exit ==
    /\ pc = "loop" /\ ~running
    /\ pc' = "done"
    /\ UNCHANGED <<view, csv_text, history, csv, blobs, clock, clip, recent_text,
                   recent_image_hash, running, cur, gui, gargs, signal, steps, first_poll,
                   failures, last>>

\* quit_app, line 624: self.monitor_thread.stop()
Q_Stop ==
    /\ gui = "idle"
    /\ running' = FALSE
    /\ gui' = "wait"
    /\ UNCHANGED <<view, csv_text, history, csv, blobs, clock, clip, recent_text,
                   recent_image_hash, pc, cur, gargs, signal, steps, first_poll, failures,
                   last>>

\* mutant: wait() returns while the thread is still running
Q_WaitReturnsAtOnce ==
    /\ gui = "wait"
    /\ gui' = "quit"
    /\ UNCHANGED <<view, csv_text, history, csv, blobs, clock, clip, recent_text,
                   recent_image_hash, running, pc, cur, gargs, signal, steps, first_poll,
                   failures, last>>

\* quit_app, line 625: self.monitor_thread.wait() returns once run has returned
Q_Wait ==
    /\ gui = "wait" /\ pc = "done"
    /\ gui' = "quit"
    /\ UNCHANGED <<view, csv_text, history, csv, blobs, clock, clip, recent_text,
                   recent_image_hash, running, pc, cur, gargs, signal, steps, first_poll,
                   failures, last>>

\* quit_app, line 626: QApplication.instance().quit()
Q_Quit ==
    /\ gui = "quit"
    /\ gui' = "exited"
    /\ UNCHANGED <<view, csv_text, history, csv, blobs, clock, clip, recent_text,
                   recent_image_hash, running, pc, cur, gargs, signal, steps, first_poll,
                   failures, last>>

PollerRun == Poller \/ P_Raise \/ P_Exit

QuitApp == Q_Stop \/ Q_Wait \/ Q_Quit

NextRun == PollerRun \/ QuitApp

SpecRun == Init /\ [][NextRun]_vars

SpecRunFair == SpecRun /\ WF_vars(PollerRun)

(***************************************************************************)
(* SpecRender: the poller thread, and the GUI thread rendering a bucket in *)
(* update_history_view, statement by statement.                            *)
(***************************************************************************)
\* the list the for loop of update_history_view iterates over: the bucket
\* itself if the date had one when get_history_for_date was called (the list
\* object is returned, not a copy), else the fresh empty list of .get(date, [])
DateHistory == IF view.live THEN get_history_for_date(history, view.date) ELSE <<>>

\* update_history_view, lines 523-526: get_history_for_date ; iter(date_history)
R_Begin(selected_date) ==
    /\ gui = "idle"
    /\ view' = View(selected_date, selected_date \in DOMAIN history, 0, <<>>,
                    get_history_for_date(history, selected_date))
    /\ gui' = "render"
    /\ UNCHANGED <<csv_text, history, csv, blobs, clock, clip, recent_text,
                   recent_image_hash, running, pc, cur, gargs, signal, steps, first_poll,
                   failures, last>>

\* lines 526-527: the list iterator yields the element at its index, which
\* the row added to history_list shows
R_Next ==
    /\ gui = "render" /\ view.i < Len(DateHistory)
    /\ view' = [view EXCEPT !.i = @ + 1, !.shown = Append(@, DateHistory[view.i + 1])]
    /\ UNCHANGED <<csv_text, history, csv, blobs, clock, clip, recent_text,
                   recent_image_hash, running, pc, cur, gui, gargs, signal, steps,
                   first_poll, failures, last>>

\* line 526: the index has reached the length of the list, the loop ends
R_End ==
    /\ gui = "render" /\ view.i >= Len(DateHistory)
    /\ gui' = "idle"
    /\ UNCHANGED <<view, csv_text, history, csv, blobs, clock, clip, recent_text,
                   recent_image_hash, running, pc, cur, gargs, signal, steps, first_poll,
                   failures, last>>

Render == (\E d \in Dates : R_Begin(d)) \/ R_Next \/ R_End

NextRender == Poller \/ Render

SpecRender == Init /\ [][NextRender]_vars

(***************************************************************************)
(* SpecCsv: the log file character by character.  A character is a string *)
(* of the model; a text is a sequence of characters.  The timestamp and    *)
(* the type of a record, which hold no special character, are written as   *)
(* one symbol each.  _append_to_csv writes with csv.writer, and             *)
(* _load_history_from_csv reads with csv.reader, both with the default     *)
(* dialect, the file being opened with newline=''.                         *)
(***************************************************************************)
\* the longest text payload, and the longest text of a log's other records
MaxTextLen == 3
MaxNeighbourLen == 1
\* the most records of a log
MaxRecords == 3
\* csv.field_size_limit(): 131072 in the library, scaled down
FieldSizeLimit == 2

Chars == {"a", ",", "\"", "\n", "\r"}

RECURSIVE TextsOfLen(_)
TextsOfLen(n) ==
    IF n = 0 THEN {<<>>}
    ELSE {Append(text, c) : text \in TextsOfLen(n - 1), c \in Chars}

\* the clipboard texts of one to n characters
Payloads(n) == UNION {TextsOfLen(k) : k \in 1..n}

\* csv.writer, QUOTE_MINIMAL: a field is quoted if it holds the delimiter,
\* the quote character or a character of the line terminator; a quote
\* character inside it is doubled
NeedsQuotes(field) == \E i \in 1..Len(field) : field[i] \in {",", "\"", "\n", "\r"}

RECURSIVE Doubled(_)
Doubled(field) ==
    IF field = <<>> THEN <<>>
    ELSE (IF Head(field) = "\"" THEN <<"\"", "\"">> ELSE <<Head(field)>>) \o Doubled(Tail(field))

QuoteField(field) ==
    IF NeedsQuotes(field) THEN <<"\"">> \o Doubled(field) \o <<"\"">> ELSE field

\* writer.writerow([timestamp_iso, item_type, content]): the fields joined by
\* the delimiter, then the line terminator '\r\n'
writerow(fields) ==
    QuoteField(fields[1]) \o <<",">> \o QuoteField(fields[2]) \o <<",">>
        \o QuoteField(fields[3]) \o <<"\r", "\n">>

\* the fields of a record as they are handed to the writer
Fields(row) == <<<<ToString(row[1])>>, <<row[2]>>, row[3]>>

\* csv.reader over the characters of the file: the state machine of the
\* parser (start of record, start of field, in field, in quoted field, quote
\* in quoted field, after '\r').  A character added to a field that holds
\* FieldSizeLimit characters raises _csv.Error: the result is the rows
\* completed before, and the error.
Parsed(rows, error) == [rows |-> rows, error |-> error]

RECURSIVE reader(_, _, _, _, _)
reader(text, state, field, row, rows) ==
    IF text = <<>>
    THEN IF state \in {"start_record", "eat_crnl"} THEN Parsed(rows, FALSE)
         ELSE Parsed(Append(rows, Append(row, field)), FALSE)
    ELSE LET c == Head(text)
             rest == Tail(text)
             newline == c \in {"\n", "\r"}
             after == IF c = "\r" THEN "eat_crnl" ELSE "start_record"
             add(next) == IF Len(field) >= FieldSizeLimit THEN Parsed(rows, TRUE)
                          ELSE reader(rest, next, Append(field, c), row, rows)
             save(next) == reader(rest, next, <<>>, Append(row, field), rows)
             end == reader(rest, after, <<>>, <<>>, Append(rows, Append(row, field)))
         IN  CASE state = "eat_crnl" ->
                    IF c = "\n" THEN reader(rest, "start_record", <<>>, <<>>, rows)
                    ELSE reader(text, "start_record", <<>>, <<>>, rows)
               [] state = "start_record" ->
                    IF newline THEN reader(rest, after, <<>>, <<>>, Append(rows, <<>>))
                    ELSE reader(text, "start_field", <<>>, <<>>, rows)
               [] state = "start_field" ->
                    IF newline THEN end
                    ELSE IF c = "\"" THEN reader(rest, "in_quoted_field", field, row, rows)
                    ELSE IF c = "," THEN save("start_field")
                    ELSE add("in_field")
               [] state = "in_field" ->
                    IF newline THEN end
                    ELSE IF c = "," THEN save("start_field")
                    ELSE add("in_field")
               [] state = "in_quoted_field" ->
                    IF c = "\"" THEN reader(rest, "quote_in_quoted_field", field, row, rows)
                    ELSE add("in_quoted_field")
               [] OTHER ->
                    IF c = "\"" THEN add("in_quoted_field")
                    ELSE IF c = "," THEN save("start_field")
                    ELSE IF newline THEN end
                    ELSE add("in_field")

\* the rows the for loop of _load_history_from_csv gets from the reader, the
\* timestamp and the type read back from their symbols
Timestamp(field) ==
    IF Len(field) = 1 /\ \E t \in 0..MaxClock : ToString(t) = field[1]
    THEN CHOOSE t \in 0..MaxClock : ToString(t) = field[1]
    ELSE NotADate

RowRead(fields) ==
    IF Len(fields) = 3 /\ Len(fields[2]) = 1
    THEN <<Timestamp(fields[1]), fields[2][1], fields[3]>>
    ELSE <<>>

RowsRead(text) ==
    LET rows == reader(text, "start_record", <<>>, <<>>, <<>>).rows
    IN  [i \in 1..Len(rows) |-> RowRead(rows[i])]

\* add_item of a text: the record is appended to the characters of the file
C_AddItem(text) ==
    /\ Len(csv.rows) < MaxRecords /\ clock <= MaxClock
    /\ history' = add_item_insert(history, isoformat(clock), "text", text)
    /\ csv' = append_to_csv(csv, <<isoformat(clock), "text", text>>, "ok")
    /\ csv_text' = csv_text \o writerow(Fields(<<isoformat(clock), "text", text>>))
    /\ cur' = <<isoformat(clock), "text", text>>
    /\ last' = Op("add_item", {}, "ok", "none", "item_date")
    /\ clock' = clock + POLL_INTERVAL_SECONDS
    /\ UNCHANGED <<view, blobs, clip, recent_text, recent_image_hash, running, pc, gui,
                   gargs, signal, steps, first_poll, failures>>

\* one record of the log has a text of up to MaxTextLen characters, the
\* others of up to MaxNeighbourLen
LongRecords ==
    {i \in 1..Len(csv.rows) : Len(csv.rows[i][3]) > MaxNeighbourLen}

C_Append ==
    \E text \in Payloads(IF LongRecords = {} THEN MaxTextLen ELSE MaxNeighbourLen) :
        C_AddItem(text)

\* HistoryManager.__init__ of the next start: the history is loaded from the
\* characters of the file
C_Load ==
    /\ history' = LoadRows(RowsRead(csv_text), <<>>)
    /\ last' = Op("load", {}, "none", "none", "None")
    /\ cur' = NoItem
    /\ UNCHANGED <<view, csv_text, csv, blobs, clock, clip, recent_text, recent_image_hash,
                   running, pc, gui, gargs, signal, steps, first_poll, failures>>

NextCsv == C_Append \/ C_Load

SpecCsv == Init /\ [][NextCsv]_vars

(***************************************************************************)
(* Properties                                                              *)
(***************************************************************************)
Deletions == {"clear_date", "clear_all"}

ItemCount(h) == Len(RewriteRows(h))

\* C1: with every file operation succeeding, a fresh HistoryManager built
\* from the log has the same get_all_dates() and the same
\* get_history_for_date(d) for every date as the live history.
RoundTrip ==
    LET fresh == load_history_from_csv(csv)
    IN  /\ get_all_dates(fresh) = get_all_dates(history)
        /\ \A d \in Dates : get_history_for_date(fresh, d) = get_history_for_date(history, d)

\* a compaction has left two dates, one of them with two items
RoundTripWitness ==
    /\ last.op = "clear_date" /\ last.rewrite = "ok"
    /\ Cardinality(DOMAIN history) >= 2
    /\ \E d \in DOMAIN history : Len(history[d]) >= 2
    /\ Len(csv.rows) >= 3

\* C2: a deletion whose rewrite of the log fails leaves the in-memory
\* history as it was before the call, and equal to the replay of the log.
RolledBackOnFailure ==
    [][(last'.op \in Deletions /\ last'.rewrite = "fail")
        => (history' = history /\ load_history_from_csv(csv') = history')]_vars

\* C3: a rewrite of the log that fails leaves the content of the log file
\* as it was before the call.
AtomicCompaction == [][last'.rewrite = "fail" => csv' = csv]_vars

\* C5: the first poll after a start adds no item whose content (text, or
\* image fingerprint) is that of the most recent item of the loaded history.
SameContent(item, latest) ==
    /\ latest # NoItem
    /\ item[2] = latest[2]
    /\ IF item[2] = "text" THEN item[3] = latest[3] ELSE item[3][2] = latest[3][2]

PrimingPreventsRecapture ==
    [][(first_poll /\ last.op = "load" /\ last'.op = "add_item")
        => ~SameContent(signal', LatestItem(history))]_vars

\* C6: a cycle that reads a text from the clipboard adds it to the history
\* and emits newItem, setting recent_text to it, if and only if it is not
\* empty and differs from recent_text; otherwise it adds and emits nothing.
\* Hence the same text read by two consecutive cycles is added once at most
\* by the first and never by the second.
TextDedup ==
    [][(clock' # clock /\ ~clip'.hasImage /\ clip'.hasText)
        => /\ clip' = clip => UNCHANGED <<history, signal>>
           /\ IF clip'.text # <<>> /\ clip'.text # recent_text
              THEN /\ recent_text' = clip'.text
                   /\ signal' = <<isoformat(clock), "text", clip'.text>>
                   /\ get_history_for_date(history', date(clock)) =
                          <<signal'>> \o get_history_for_date(history, date(clock))
                   /\ ItemCount(history') = ItemCount(history) + 1
              ELSE UNCHANGED <<history, recent_text, signal>>]_vars

\* the last cycle has read again the text that is the most recent item of
\* the history, captured by an earlier cycle, and has captured nothing
TextDedupWitness ==
    /\ ~clip.hasImage /\ clip.text # <<>> /\ recent_text = clip.text
    /\ cur = NoItem
    /\ last.op = "add_item" /\ signal = LatestItem(history)
    /\ signal[2] = "text" /\ signal[3] = clip.text

\* C8: a deletion whose rewrite of the log fails returns or raises an error
\* outcome to its caller.
FailureReported == (last.op \in Deletions /\ last.rewrite = "fail") => last.ret # "None"

\* C9: clear_date(d) for a date d that has no bucket returns normally and
\* leaves the in-memory history, the log file and the blob files unchanged.
DeleteAbsentIsNoOp ==
    [][\A d \in Dates :
        (last'.op = "clear_date" /\ last'.args = {d} /\ d \notin DOMAIN history)
            => (UNCHANGED <<history, csv, blobs>> /\ last'.ret = "None")]_vars

\* clear_date has run on a date without a bucket while the history, the log
\* and the blob directory were not empty
DeleteAbsentWitness ==
    /\ last.op = "clear_date" /\ last.rewrite = "none"
    /\ last.args \cap DOMAIN history = {}
    /\ Cardinality(DOMAIN history) >= 2 /\ csv.rows # <<>> /\ blobs # {}

\* C4: the poller thread is never between the insert and the append of
\* add_item while the GUI thread is inside clear_date or clear_all, and when
\* neither thread is inside an operation the replay of the log equals the
\* in-memory history.
InsideClear == {"delete_files", "del", "clear", "rewrite"}

MutationsSerialized ==
    /\ ~(pc = "append" /\ gui \in InsideClear)
    /\ (pc \in {"start", "loop", "sleep"} /\ gui = "idle") => RoundTrip

\* the consequence alone: when neither thread is inside an operation the
\* replay of the log equals the in-memory history
ConsistentWhenQuiescent == (pc \in {"start", "loop", "sleep"} /\ gui = "idle") => RoundTrip

\* C7: loading keeps every well-formed record of the log (three fields and a
\* timestamp that parses), in file order, whatever malformed records stand
\* before or after it; a missing file gives the empty history.
WellFormed(row) == Len(row) = 3 /\ ParseOk(row[1])

RECURSIVE InsertAll(_, _)
InsertAll(rows, h) ==
    IF rows = <<>> THEN h
    ELSE InsertAll(Tail(rows), Insert0(h, date(Head(rows)[1]), Head(rows)))

LoadSkipsOnlyMalformed ==
    last.op = "load" =>
        history = IF csv.exists THEN InsertAll(SelectSeq(csv.rows, WellFormed), <<>>) ELSE <<>>

\* C10: an accepted sample goes through: blob file written (images only),
\* item inserted in the index, record appended to the log, newItem emitted
\* with the item's (timestamp, kind, payload); in this order.
ExpectedSteps(item_type) ==
    IF item_type = "image" THEN <<"save", "insert", "append", "emit">>
    ELSE <<"insert", "append", "emit">>

IsPrefix(s, t) == Len(s) <= Len(t) /\ s = SubSeq(t, 1, Len(s))

Has(s, x) == \E i \in 1..Len(s) : s[i] = x

CaptureOrder ==
    [][/\ cur' # NoItem => IsPrefix(steps', ExpectedSteps(cur'[2]))
       /\ (pc = "save" /\ pc' # pc) => cur[3] \in blobs'
       /\ (pc = "insert" /\ pc' # pc)
              => /\ Has(get_history_for_date(history', date(cur[1])), cur)
                 /\ (cur[2] = "image" => Has(steps, "save"))
       /\ (pc = "append" /\ pc' # pc) => (Has(csv'.rows, cur) /\ Has(steps, "insert"))
       /\ (pc = "emit" /\ pc' # pc)
              => (signal' = cur /\ Has(steps, "insert") /\ Has(steps, "append"))]_vars

\* an image capture has gone through its four steps
CaptureOrderWitness ==
    /\ pc = "sleep" /\ cur # NoItem /\ cur[2] = "image"
    /\ steps = <<"save", "insert", "append", "emit">>
    /\ signal = cur /\ csv.rows # <<>> /\ csv.rows[Len(csv.rows)] = cur

IsSuffix(s, t) == Len(s) <= Len(t) /\ s = SubSeq(t, Len(t) - Len(s) + 1, Len(t))

\* C11: a cycle whose append to the log fails still puts the accepted item
\* at the head of its bucket, leaves the records of the log as they were and
\* leaves the capture loop running; and no cycle removes an item from the
\* history, so the item stays until a deletion or the end of the session.
BestEffortAppend ==
    [][/\ (clock' # clock /\ cur' # NoItem /\ last'.append = "fail")
            => /\ get_history_for_date(history', date(cur'[1]))
                      = <<cur'>> \o get_history_for_date(history, date(cur'[1]))
               /\ csv'.rows = csv.rows
               /\ running' /\ pc' = "loop"
       /\ clock' # clock
            => \A d \in DOMAIN history :
                   d \in DOMAIN history' /\ IsSuffix(history[d], history'[d])]_vars

\* an append has just failed on a log that holds earlier records: the item
\* is in its bucket and not in the log
BestEffortAppendWitness ==
    /\ last.op = "add_item" /\ last.append = "fail" /\ cur # NoItem
    /\ Has(get_history_for_date(history, date(cur[1])), cur)
    /\ ~Has(csv.rows, cur) /\ csv.rows # <<>>
    /\ pc = "loop" /\ running

\* C12: an exception raised while the clipboard is sampled or a sample is
\* processed is caught in the cycle it is raised in: run goes on to the sleep
\* and from the sleep to the test of the loop; run returns only from that
\* test, when stop has been requested.
LoopSurvivesException ==
    [][/\ (steps' # steps /\ Has(steps', "raise")) => pc' = "sleep"
       /\ (pc = "sleep" /\ pc' # pc) => pc' = "loop"
       /\ (pc' = "done" /\ pc # "done") => (pc = "loop" /\ ~running)]_vars

\* a text has been captured in a cycle that follows a cycle in which the
\* insertion of an image raised after its blob file was written
LoopSurvivesExceptionWitness ==
    /\ pc = "sleep" /\ running /\ steps = <<"insert", "append", "emit">>
    /\ signal = cur /\ Has(csv.rows, cur)
    /\ \E p \in blobs : p \notin AllImagePaths(history, DOMAIN history)

\* C13: once stop() has been called the loop does not enter the sleep, and
\* after a sleep during which stop() was called it takes no other sample.
StopCheckedAroundSleep ==
    [][/\ (~running /\ pc # "sleep") => pc' # "sleep"
       /\ (~running /\ pc = "sleep") => pc' \in {"sleep", "loop"}
       /\ (~running /\ pc = "loop") => pc' \in {"loop", "done"}]_vars

\* C14: after stop() the loop eventually exits; quit_app passes wait() only
\* when run has returned, and from then on nothing is added to the history,
\* the log or the blob files.
PastWait == {"quit", "exited"}

StopTerminatesAndIsAwaited ==
    /\ ~running ~> pc = "done"
    /\ [](gui \in PastWait => pc = "done")
    /\ [][(gui \in PastWait) => UNCHANGED <<history, csv, blobs, signal>>]_vars

\* the application has quit after a capture went through
StopTerminatesWitness ==
    /\ gui = "exited" /\ pc = "done" /\ ~running
    /\ cur # NoItem /\ steps = ExpectedSteps(cur[2]) /\ Has(csv.rows, cur)

\* C15: the timestamps of the records of the log file are non-decreasing
\* from the first record to the last.
LogChronological ==
    \A i \in 1..(Len(csv.rows) - 1) :
        fromisoformat(csv.rows[i][1]) <= fromisoformat(csv.rows[i + 1][1])

\* C16: a deletion removes no blob file that an image record of the log
\* still refers to when the deletion returns.
IsImageRecordOf(row, path) == row[2] = "image" /\ row[3] = path

NoRecordOfRemovedBlob ==
    [][\A path \in blobs \ blobs' :
        \A i \in 1..Len(csv'.rows) : ~IsImageRecordOf(csv'.rows[i], path)]_vars

\* C17: clear_date(d) on an existing bucket, its file operations succeeding,
\* leaves d out of get_all_dates(), get_history_for_date(d) empty, no record
\* of the log on d, no blob file of an image item of d, and the buckets and
\* blob files of the other dates as they were.
ClearDateEffect ==
    [][\A d \in Dates :
        (last'.op = "clear_date" /\ last'.args = {d} /\ last'.rewrite = "ok"
            /\ d \in DOMAIN history)
        => /\ ~Has(get_all_dates(history'), d)
           /\ get_history_for_date(history', d) = <<>>
           /\ \A i \in 1..Len(csv'.rows) : date(fromisoformat(csv'.rows[i][1])) # d
           /\ blobs' \cap ImagePaths(history[d]) = {}
           /\ blobs' = blobs \ ImagePaths(history[d])
           /\ DOMAIN history' = DOMAIN history \ {d}
           /\ \A e \in DOMAIN history \ {d} : history'[e] = history[e]]_vars

\* clear_date has removed the date of the image captured last, and its blob
\* file, while another date keeps its blob file and its records
ClearDateEffectWitness ==
    /\ last.op = "clear_date" /\ last.rewrite = "ok"
    /\ cur # NoItem /\ cur[2] = "image" /\ date(cur[1]) \in last.args
    /\ cur[3] \notin blobs /\ ~Has(csv.rows, cur)
    /\ blobs # {} /\ blobs = AllImagePaths(history, DOMAIN history)

\* C18: every bucket lists its items with non-increasing timestamps, every
\* item of the bucket of d has a timestamp of date d, and
\* get_history_for_date is empty for a date without a bucket; a bucket
\* changes only by an item put in front of it (so items with the same
\* timestamp stand in reverse insertion order), and a reload from the log
\* gives every bucket as it was.
BucketNewestFirst(d, history_items) ==
    \A i \in 1..Len(history_items) :
        /\ date(fromisoformat(history_items[i][1])) = d
        /\ i < Len(history_items)
              => fromisoformat(history_items[i][1]) >= fromisoformat(history_items[i + 1][1])

NewestFirstBuckets ==
    /\ [](\A d \in DOMAIN history : BucketNewestFirst(d, get_history_for_date(history, d)))
    /\ [](\A d \in Dates \ DOMAIN history : get_history_for_date(history, d) = <<>>)
    /\ [][/\ \A d \in DOMAIN history \cap DOMAIN history' :
                 \/ history'[d] = history[d]
                 \/ history'[d] = <<cur'>> \o history[d] /\ csv'.rows = Append(csv.rows, cur')
          /\ \A d \in DOMAIN history' \ DOMAIN history :
                 history'[d] = <<cur'>> /\ csv'.rows = Append(csv.rows, cur')
          /\ last'.op = "load" => history' = history]_vars

\* after a reload from the log, a bucket holds two different items that bear
\* the same timestamp, above an older item
NewestFirstBucketsWitness ==
    /\ last.op = "load" /\ history = load_history_from_csv(csv)
    /\ \E d \in DOMAIN history :
        /\ Len(history[d]) = 3
        /\ history[d][1][1] = history[d][2][1] /\ history[d][1] # history[d][2]
        /\ history[d][2][1] > history[d][3][1]

\* C19: the items a rendering has shown are the first items of one state the
\* bucket has had since the rendering began, each shown once.
BucketStatesSince ==
    LET now == get_history_for_date(history, view.date)
    IN  {SubSeq(now, k, Len(now)) : k \in 1..(Len(now) - Len(view.before) + 1)}

NoItemTwice(s) == \A i, j \in 1..Len(s) : s[i] = s[j] => i = j

RenderingIsSnapshot ==
    /\ NoItemTwice(view.shown)
    /\ \E state \in BucketStatesSince : IsPrefix(view.shown, state)

\* C20: the history loaded from the characters of the log holds, for every
\* record appended, one item with the text as it was given to add_item, the
\* records before and after it being read as they were written.
EscapingRoundTrip == last.op = "load" => history = load_history_from_csv(csv)

\* the same for logs whose texts do not exceed the field size limit of the
\* reader
EscapingRoundTripWithinLimit ==
    (last.op = "load" /\ \A i \in 1..Len(csv.rows) : Len(csv.rows[i][3]) <= FieldSizeLimit)
        => /\ history = load_history_from_csv(csv)
           /\ RowsRead(csv_text) = csv.rows

\* C21: after clear_date or clear_all, a poll that finds on the clipboard what
\* the poll before it found, or the text or the image captured last, adds
\* nothing: the history, the log, the blob files and the last emission stay
\* as the deletion left them.
HoldsLastCaptured(snapshot) ==
    IF snapshot.hasImage
    THEN snapshot.image # NullImage /\ sha256(snapshot.image) = recent_image_hash
    ELSE snapshot.hasText /\ snapshot.text = recent_text

DedupSurvivesDeletion ==
    [][(clock' # clock /\ last.op \in Deletions /\ (clip' = clip \/ HoldsLastCaptured(clip')))
        => UNCHANGED <<history, csv, blobs, signal, last>>]_vars

\* the history has been cleared, and the last poll has found the text
\* captured last still on the clipboard and has captured nothing
DedupSurvivesDeletionWitness ==
    /\ last.op = "clear_all" /\ history = <<>> /\ csv.rows = <<>>
    /\ cur = NoItem /\ signal # NoItem /\ signal[2] = "text"
    /\ clip.hasText /\ ~clip.hasImage /\ clip.text = signal[3] /\ recent_text = signal[3]
    /\ ~first_poll

\* C22: among the text items captured in a session, in capture order, no two
\* consecutive ones have the same text, whatever images are captured between
\* them; and among the image items no two consecutive ones have the same hash,
\* whatever texts are captured between them.
IsText(row) == row[2] = "text"
IsImage(row) == row[2] = "image"

NoTwoConsecutiveEqual(rows, Content(_)) ==
    \A i \in 1..(Len(rows) - 1) : Content(rows[i]) # Content(rows[i + 1])

TextOf(row) == row[3]
HashOf(row) == row[3][2]

IndependentDedup ==
    /\ NoTwoConsecutiveEqual(SelectSeq(csv.rows, IsText), TextOf)
    /\ NoTwoConsecutiveEqual(SelectSeq(csv.rows, IsImage), HashOf)
    /\ \A d \in DOMAIN history : \A i \in 1..Len(history[d]) : Has(csv.rows, history[d][i])
    /\ ItemCount(history) = Len(csv.rows)

\* text A, then an image, then text A again on the clipboard: the last poll
\* has captured nothing
IndependentDedupWitness ==
    /\ Len(csv.rows) = 2 /\ IsText(csv.rows[1]) /\ IsImage(csv.rows[2])
    /\ clip.hasText /\ ~clip.hasImage /\ clip.text = TextOf(csv.rows[1])
    /\ cur = NoItem /\ recent_text = clip.text

\* C23: no two image items of the history refer to the same blob path, and
\* clear_date(d) removes no blob file that an item of another date refers to.
ImageItemAt(d, i) == history[d][i][2] = "image"

BlobOwnershipExclusive ==
    /\ [](\A d, e \in DOMAIN history :
            \A i \in 1..Len(history[d]), j \in 1..Len(history[e]) :
                (ImageItemAt(d, i) /\ ImageItemAt(e, j) /\ history[d][i][3] = history[e][j][3])
                    => (d = e /\ i = j))
    /\ [][\A d \in Dates :
            (last'.op = "clear_date" /\ last'.args = {d} /\ d \in DOMAIN history)
                => (blobs \ blobs') \cap AllImagePaths(history, DOMAIN history \ {d}) = {}]_vars

\* clear_date has removed the blob file of the image captured last, while an
\* item of another date, captured from the same image, keeps its blob file
BlobOwnershipWitness ==
    /\ last.op = "clear_date" /\ last.rewrite = "ok"
    /\ cur # NoItem /\ cur[2] = "image" /\ date(cur[1]) \in last.args
    /\ cur[3] \notin blobs
    /\ \E d \in DOMAIN history : \E i \in 1..Len(history[d]) :
          /\ ImageItemAt(d, i) /\ history[d][i][3][2] = cur[3][2]
          /\ history[d][i][3] \in blobs

====
